---- MODULE Spec2Model ----
(***************************************************************************)
(* keras_nlp.layers.MultiSegmentPacker: packs one or more token segments   *)
(* into one fixed-width row (start, segments separated by sep, end, pad)   *)
(* together with a parallel row of segment ids.                            *)
(*                                                                         *)
(* Python values are encoded as follows.                                   *)
(*   - a delimiter / pad argument is a record [kind, toks]: kind "none"    *)
(*     is Python None, "scalar" an int, "list" a list of ints;             *)
(*   - a tensor is a record [rank, dense, data]: dense is TRUE for a       *)
(*     tf.Tensor and FALSE for a tf.RaggedTensor; data is a sequence of    *)
(*     tokens for rank 1 and a sequence of rows for rank 2;                *)
(*   - indices are 1-based here and 0-based in the source.                 *)
(***************************************************************************)
EXTENDS Integers, Sequences, FiniteSets, TLC

VARIABLES packer, inputs, status, segments, token_ids, segment_ids,
          config, clone

vars == <<packer, inputs, status, segments, token_ids, segment_ids,
          config, clone>>

---------------------------------------------------------------------------
(* Bounds of the model. *)
MinSeqLen == 3
MaxSeqLen == 7
MaxSegs == 3
MaxLen == 2
MaxBatch == 2
MaxRejected == 2

---------------------------------------------------------------------------
(* Arithmetic and sequence helpers. *)
Min(a, b) == IF a < b THEN a ELSE b

Max(a, b) == IF a > b THEN a ELSE b

RECURSIVE SumSeq(_)
SumSeq(s) == IF s = <<>> THEN 0 ELSE Head(s) + SumSeq(Tail(s))

\* tf.ones_like(x) * v for one row: as many copies of v as x has tokens.
ones_like(row, v) == [k \in 1..Len(row) |-> v]

---------------------------------------------------------------------------
(* Python values of the constructor arguments. *)
NoneValue == [kind |-> "none", toks |-> <<>>]

ScalarValue(x) == [kind |-> "scalar", toks |-> <<x>>]

ListValue(s) == [kind |-> "list", toks |-> s]

StartValues == {ScalarValue(101), ListValue(<<101, 100>>)}

EndValues == {ScalarValue(102), ListValue(<<104, 102>>)}

SepValues == {NoneValue, ListValue(<<103, 103>>)}

PadValues == {NoneValue, ScalarValue(99)}

TruncateValues == {"round_robin", "waterfall"}

---------------------------------------------------------------------------
(* Construction and configuration. *)

\* An int/str becomes a one-element list; a list, a tuple or None is kept.
check_special_value_type(value) ==
    IF value.kind = "scalar" THEN ListValue(value.toks) ELSE value

__init__(sequence_length, start_value, end_value, sep_value, pad_value, truncate) ==
    [sequence_length |-> sequence_length,
     truncate        |-> truncate,
     _start_value    |-> start_value,
     _sep_value      |-> sep_value,
     _end_value      |-> end_value,
     start_value     |-> check_special_value_type(start_value),
     sep_value       |-> check_special_value_type(
                             IF sep_value.kind = "none" THEN end_value
                                                        ELSE sep_value),
     end_value       |-> check_special_value_type(end_value),
     pad_value       |-> pad_value]

get_config_sep_as_end(p) ==
    [sequence_length |-> p.sequence_length,
     start_value     |-> p._start_value,
     end_value       |-> p._end_value,
     sep_value       |-> p._end_value,
     pad_value       |-> p.pad_value,
     truncate        |-> p.truncate]

get_config(p) ==
    [sequence_length |-> p.sequence_length,
     start_value     |-> p._start_value,
     end_value       |-> p._end_value,
     sep_value       |-> p._sep_value,
     pad_value       |-> p.pad_value,
     truncate        |-> p.truncate]

\* Reconstruction passes the recorded parameters back to the constructor.
from_config(c) ==
    __init__(c.sequence_length, c.start_value, c.end_value, c.sep_value,
             c.pad_value, c.truncate)

NoConfig == [absent |-> TRUE]

NoPacker == [absent |-> TRUE]

---------------------------------------------------------------------------
(* Tensors and the inputs of a call. *)

\* x.shape.rank of a tensor whose rank is not statically known (None).
NoneRank == -1

RankValues == {NoneRank, 0, 1, 2, 3}

Token(b, i, j) == 50 * (b - 1) + 10 * (i - 1) + j

Row(b, i, n) == [j \in 1..n |-> Token(b, i, j)]

\* Length of row b of a segment whose first row has l tokens: a dense
\* tensor is rectangular, a ragged one has rows of different lengths.
RowLen(l, b, dense) == IF dense THEN l ELSE (l + b - 1) % (MaxLen + 1)

Tensor1(i, l) == [rank |-> 1, dense |-> TRUE, data |-> Row(1, i, l)]

\* A rank-2 input is a batch of MaxBatch examples.
Tensor2(i, l, dense) ==
    [rank |-> 2, dense |-> dense,
     data |-> [b \in 1..MaxBatch |-> Row(b, i, RowLen(l, b, dense))]]

\* A tensor that only validation looks at.
ShapeOnly(r) == [rank |-> r, dense |-> TRUE, data |-> <<>>]

NoTensor == [rank |-> 0, dense |-> TRUE, data |-> <<>>]

NoInputs == [is_list |-> TRUE, tensors |-> <<>>]

\* What the caller passes: a list/tuple of tensors, or one bare tensor.
ListOf(ts) == [is_list |-> TRUE, tensors |-> ts]

Bare(t) == [is_list |-> FALSE, tensors |-> <<t>>]

Rank1Inputs ==
    UNION { { ListOf([i \in 1..n |-> Tensor1(i, ls[i])]) :
                ls \in [1..n -> 0..MaxLen] } : n \in 1..MaxSegs }
    \cup { Bare(Tensor1(1, l)) : l \in 0..MaxLen }

Rank2Inputs ==
    UNION { { ListOf([i \in 1..n |-> Tensor2(i, ls[i], dense)]) :
                ls \in [1..n -> 0..MaxLen], dense \in BOOLEAN } :
            n \in 1..MaxSegs }
    \cup { Bare(Tensor2(1, l, dense)) : l \in 0..MaxLen, dense \in BOOLEAN }

\* Inputs that validation rejects: the empty collection, and collections
\* or bare tensors whose ranks are not all 1 or all 2.
RejectedInputs ==
    {ListOf(<<>>)}
    \cup UNION { { ListOf([i \in 1..n |-> ShapeOnly(rs[i])]) :
                     rs \in { f \in [1..n -> RankValues] :
                                ~ (\/ \A i \in 1..n : f[i] = 1
                                   \/ \A i \in 1..n : f[i] = 2) } } :
                 n \in 1..MaxRejected }
    \cup { Bare(ShapeOnly(r)) : r \in RankValues \ {1, 2} }

---------------------------------------------------------------------------
(* _sanitize_inputs *)

\* all(0 < rank < 3 for rank in input_ranks), evaluated left to right:
\* a rank outside 1..2 ends the scan with False; 0 < None is a TypeError.
RECURSIVE all_ranks_1_or_2(_)
all_ranks_1_or_2(ranks) ==
    IF ranks = <<>> THEN "True"
    ELSE IF Head(ranks) = NoneRank THEN "TypeError"
    ELSE IF ~ (0 < Head(ranks) /\ Head(ranks) < 3) THEN "False"
    ELSE all_ranks_1_or_2(Tail(ranks))

\* Returns the error raised ("none" when validation passes) and the list.
_sanitize_inputs(in) ==
    LET ts          == in.tensors
        input_ranks == [i \in 1..Len(ts) |-> ts[i].rank]
        scan        == all_ranks_1_or_2(input_ranks)
        err         ==
            IF ts = <<>> THEN "ValueError"
            ELSE IF scan = "TypeError" THEN "TypeError"
            ELSE IF scan = "False" THEN "ValueError"
            ELSE IF \/ \E i \in 1..Len(ts) : input_ranks[i] = NoneRank
                    \/ Cardinality({input_ranks[i] : i \in 1..Len(ts)}) > 1
                 THEN "ValueError"
            ELSE "none"
    IN [err |-> err, inputs |-> ts]

---------------------------------------------------------------------------
(* Rank and representation conversions. *)

expand_dims(x) ==
    [rank |-> x.rank + 1, dense |-> x.dense, data |-> <<x.data>>]

squeeze(x) == [rank |-> x.rank - 1, dense |-> x.dense, data |-> x.data[1]]

\* tf.RaggedTensor.from_tensor keeps every value of a dense tensor.
_convert_dense(x) == IF x.dense THEN [x EXCEPT !.dense = FALSE] ELSE x

---------------------------------------------------------------------------
(* _trim_inputs *)

\* "Available space is assigned one token at a time in a round-robin
\* fashion to the inputs that still need some, until the limit is reached."
RECURSIVE RoundRobinFill(_, _, _, _)
RoundRobinFill(lens, used, budget, i) ==
    IF budget <= 0 \/ \A k \in 1..Len(lens) : used[k] = lens[k] THEN used
    ELSE LET next == IF i = Len(lens) THEN 1 ELSE i + 1 IN
         IF used[i] < lens[i]
         THEN RoundRobinFill(lens, [used EXCEPT ![i] = @ + 1], budget - 1, next)
         ELSE RoundRobinFill(lens, used, budget, next)

RECURSIVE RoundRobinFillFromRight(_, _, _, _)
RoundRobinFillFromRight(lens, used, budget, i) ==
    IF budget <= 0 \/ \A k \in 1..Len(lens) : used[k] = lens[k] THEN used
    ELSE LET next == IF i = 1 THEN Len(lens) ELSE i - 1 IN
         IF used[i] < lens[i]
         THEN RoundRobinFillFromRight(lens, [used EXCEPT ![i] = @ + 1],
                                      budget - 1, next)
         ELSE RoundRobinFillFromRight(lens, used, budget, next)

RoundRobinTrimmerFromRight(max_seq_length, lens) ==
    RoundRobinFillFromRight(lens, [k \in 1..Len(lens) |-> 0],
                            max_seq_length, Len(lens))

RoundRobinTrimmer(max_seq_length, lens) ==
    RoundRobinFill(lens, [k \in 1..Len(lens) |-> 0], max_seq_length, 1)

\* "allocates quota in a left-to-right manner and fills up the buckets
\* until we run out of budget"
RECURSIVE WaterfallFill(_, _)
WaterfallFill(lens, budget) ==
    IF lens = <<>> THEN <<>>
    ELSE LET quota == Max(0, Min(Head(lens), budget)) IN
         <<quota>> \o WaterfallFill(Tail(lens), budget - quota)

RECURSIVE WaterfallFillNoCarry(_, _)
WaterfallFillNoCarry(lens, budget) ==
    IF lens = <<>> THEN <<>>
    ELSE <<Max(0, Min(Head(lens), budget))>>
         \o WaterfallFillNoCarry(Tail(lens), budget)

WaterfallTrimmerNoCarry(max_seq_length, lens) ==
    WaterfallFillNoCarry(lens, max_seq_length)

WaterfallTrimmer(max_seq_length, lens) == WaterfallFill(lens, max_seq_length)

\* What a trimmer may do with a negative limit, which it does not define.
NegativeBudgetOutcomes == {"raise", "clamp"}

num_special_tokens(p, num_segments) ==
    Len(p.start_value.toks)
    + (num_segments - 1) * Len(p.sep_value.toks)
    + Len(p.end_value.toks)

\* trim() of either trimmer: every row of every segment keeps its first
\* tokens, as many as the trimmer grants that segment in that row.
trim(p, max_seq_length, ins) ==
    LET n          == Len(ins)
        batch_size == Len(ins[1].data)
        lens(b)    == [i \in 1..n |-> Len(ins[i].data[b])]
        kept(b)    == IF p.truncate = "round_robin"
                      THEN RoundRobinTrimmer(max_seq_length, lens(b))
                      ELSE WaterfallTrimmer(max_seq_length, lens(b))
    IN [i \in 1..n |->
          [ins[i] EXCEPT !.data =
              [b \in 1..batch_size |->
                  SubSeq(ins[i].data[b], 1, kept(b)[i])]]]

_trim_inputs(p, ins, undefined) ==
    LET num_segments == Len(ins)
        budget == p.sequence_length - num_special_tokens(p, num_segments)
    IN IF budget < 0 /\ p.truncate = "round_robin" /\ undefined = "raise"
       THEN [err |-> TRUE, segments |-> <<>>]
       ELSE [err |-> FALSE, segments |-> trim(p, budget, ins)]

---------------------------------------------------------------------------
(* _combine_inputs *)

\* Segment id of the i-th segment (enumerate() counts from 0).
segment_index_one_based(i) == i

segment_index(i) == i - 1

\* Segment id carried by the sep/end delimiter that follows segment i.
delimiter_index_of_next(i, n) == IF i = n THEN i - 1 ELSE i

delimiter_index(i, n) == i - 1

RECURSIVE combine_tokens(_, _, _, _)
combine_tokens(p, segs, b, i) ==
    IF i > Len(segs) THEN <<>>
    ELSE segs[i].data[b]
         \o (IF i = Len(segs) THEN p.end_value.toks ELSE p.sep_value.toks)
         \o combine_tokens(p, segs, b, i + 1)

RECURSIVE combine_segment_ids(_, _, _, _)
combine_segment_ids(p, segs, b, i) ==
    IF i > Len(segs) THEN <<>>
    ELSE ones_like(segs[i].data[b], segment_index(i))
         \o (IF i = Len(segs)
             THEN ones_like(p.end_value.toks, delimiter_index(i, Len(segs)))
             ELSE ones_like(p.sep_value.toks, delimiter_index(i, Len(segs))))
         \o combine_segment_ids(p, segs, b, i + 1)

\* Returns the ragged pair (token_ids, segment_ids), one row per example.
_combine_inputs(p, segs) ==
    LET batch_size == Len(segs[1].data) IN
    [token_ids |->
        [rank |-> 2, dense |-> FALSE,
         data |-> [b \in 1..batch_size |->
                     p.start_value.toks \o combine_tokens(p, segs, b, 1)]],
     segment_ids |->
        [rank |-> 2, dense |-> FALSE,
         data |-> [b \in 1..batch_size |->
                     ones_like(p.start_value.toks, 0)
                     \o combine_segment_ids(p, segs, b, 1)]]]

---------------------------------------------------------------------------
(* Densifying: RaggedTensor.to_tensor(shape=[-1, width], default_value). *)

to_tensor_row_unpadded(row, width, default_value) ==
    [k \in 1..Min(width, Len(row)) |-> row[k]]

\* A row is cut or right-padded to exactly width positions.
to_tensor_row(row, width, default_value) ==
    [k \in 1..width |-> IF k <= Len(row) THEN row[k] ELSE default_value]

to_tensor(x, width, default_value) ==
    [rank |-> 2, dense |-> TRUE,
     data |-> [b \in 1..Len(x.data) |->
                 to_tensor_row(x.data[b], width, default_value)]]

\* default_value=None pads with the zero of the dtype.
pad_token(p) == IF p.pad_value.kind = "none" THEN 0 ELSE p.pad_value.toks[1]

---------------------------------------------------------------------------
(* call *)

Failure(err, in) ==
    [status |-> err, inputs |-> in, segments |-> <<>>,
     token_ids |-> NoTensor, segment_ids |-> NoTensor]

\* The outcome of packer p called on in; undefined picks what the trimmer
\* does with a negative limit.
call_outcome(p, in, undefined) ==
    LET sane == _sanitize_inputs(in) IN
    IF sane.err # "none" THEN Failure(sane.err, in)
    ELSE
    LET rank_1    == sane.inputs[1].rank = 1
        expanded  == IF rank_1
                     THEN [i \in 1..Len(sane.inputs) |->
                             expand_dims(sane.inputs[i])]
                     ELSE sane.inputs
        ragged    == [i \in 1..Len(expanded) |-> _convert_dense(expanded[i])]
        trimmed   == _trim_inputs(p, ragged, undefined)
    IN
    IF trimmed.err THEN Failure("TrimError", in)
    ELSE
    LET combined == _combine_inputs(p, trimmed.segments)
        tok      == to_tensor(combined.token_ids, p.sequence_length,
                              pad_token(p))
        seg      == to_tensor(combined.segment_ids, p.sequence_length, 0)
    IN [status      |-> "ok",
        inputs      |-> in,
        segments    |-> trimmed.segments,
        token_ids   |-> IF rank_1 THEN squeeze(tok) ELSE tok,
        segment_ids |-> IF rank_1 THEN squeeze(seg) ELSE seg]

-------------------------------------------------------------------------------------------------------------------------------------------------
(* The state machine.  A packer is immutable once constructed and every   *)
(* call builds its data afresh, so a behaviour follows one packer through *)
(* one call (Spec), or through one configuration round trip and one call  *)
(* of the reconstructed packer (SpecConfig).                              *)

Init ==
    /\ \E sl \in MinSeqLen..MaxSeqLen, sv \in StartValues, ev \in EndValues,
          spv \in SepValues, pv \in PadValues, tr \in TruncateValues :
          packer = __init__(sl, sv, ev, spv, pv, tr)
    /\ inputs = NoInputs
    /\ status = "idle"
    /\ segments = <<>>
    /\ token_ids = NoTensor
    /\ segment_ids = NoTensor
    /\ config = NoConfig
    /\ clone = NoPacker

\* The trimmer's choices on this call: free only where it is undefined.
TrimmerChoices(p, in) ==
    IF /\ p.truncate = "round_robin"
       /\ p.sequence_length - num_special_tokens(p, Len(in.tensors)) < 0
    THEN NegativeBudgetOutcomes
    ELSE {"clamp"}

CallWith(p, in) ==
    \E undefined \in TrimmerChoices(p, in) :
      \E r \in {call_outcome(p, in, undefined)} :
        /\ inputs' = r.inputs
        /\ status' = r.status
        /\ segments' = r.segments
        /\ token_ids' = r.token_ids
        /\ segment_ids' = r.segment_ids
        /\ UNCHANGED <<packer, config, clone>>

call ==
    /\ status = "idle"
    /\ \/ \E in \in Rank1Inputs : CallWith(packer, in)
       \/ \E in \in Rank2Inputs : CallWith(packer, in)
       \/ \E in \in RejectedInputs : CallWith(packer, in)

Next == call

Spec == Init /\ [][Next]_vars

GetConfig ==
    /\ config = NoConfig
    /\ config' = get_config(packer)
    /\ UNCHANGED <<packer, inputs, status, segments, token_ids, segment_ids,
                   clone>>

FromConfig ==
    /\ config # NoConfig
    /\ clone = NoPacker
    /\ clone' = from_config(config)
    /\ UNCHANGED <<packer, inputs, status, segments, token_ids, segment_ids,
                   config>>

\* The reconstructed packer is called.
CallClone ==
    /\ status = "idle"
    /\ clone # NoPacker
    /\ \/ \E in \in Rank1Inputs : CallWith(clone, in)
       \/ \E in \in Rank2Inputs : CallWith(clone, in)
       \/ \E in \in RejectedInputs : CallWith(clone, in)

NextConfig == GetConfig \/ FromConfig \/ CallClone

SpecConfig == Init /\ [][NextConfig]_vars

---------------------------------------------------------------------------
(* The call recorded in the state, as the properties below read it.       *)

N == Len(inputs.tensors)

Called == status # "idle"

Returned == status = "ok"

InputRank == inputs.tensors[1].rank

\* Some rank is missing, outside 1..2, or differs from another.
BadRanks ==
    \/ \E i \in 1..N : inputs.tensors[i].rank \notin {1, 2}
    \/ \E i, j \in 1..N : inputs.tensors[i].rank # inputs.tensors[j].rank

StartToks == packer._start_value.toks

EndToks == packer._end_value.toks

SepToks ==
    IF packer._sep_value.kind = "none" THEN EndToks
                                        ELSE packer._sep_value.toks

PadTok ==
    IF packer.pad_value.kind = "none" THEN 0 ELSE packer.pad_value.toks[1]

Overhead == Len(StartToks) + (N - 1) * Len(SepToks) + Len(EndToks)

Budget == packer.sequence_length - Overhead

ValidCall == Called /\ N >= 1 /\ ~ BadRanks /\ Budget >= 0

RowsOf(t) == IF t.rank = 1 THEN <<t.data>> ELSE t.data

BatchSize == Len(RowsOf(inputs.tensors[1]))

OrigRow(b, i) == RowsOf(inputs.tensors[i])[b]

OrigLen(b, i) == Len(OrigRow(b, i))

Kept(b, i) == Len(segments[i].data[b])

RECURSIVE SumTo(_, _, _)
SumTo(F(_, _), b, i) == IF i = 0 THEN 0 ELSE F(b, i) + SumTo(F, b, i - 1)

DelimAfter(i) == IF i = N THEN EndToks ELSE SepToks

\* Number of output positions before the first token of segment i.
SegStart(b, i) == Len(StartToks) + SumTo(Kept, b, i - 1) + (i - 1) * Len(SepToks)

ContentLen(b) == Overhead + SumTo(Kept, b, N)

\* Token and segment id the packing convention puts at content position k.
ExpectedAt(b, k) ==
    IF k <= Len(StartToks) THEN [tok |-> StartToks[k], id |-> 0]
    ELSE LET i == CHOOSE m \in 1..N :
                    /\ SegStart(b, m) < k
                    /\ k <= SegStart(b, m) + Kept(b, m) + Len(DelimAfter(m))
             j == k - SegStart(b, i)
         IN IF j <= Kept(b, i)
            THEN [tok |-> OrigRow(b, i)[j], id |-> i - 1]
            ELSE [tok |-> DelimAfter(i)[j - Kept(b, i)], id |-> i - 1]

TokRow(b) == RowsOf(token_ids)[b]

IdRow(b) == RowsOf(segment_ids)[b]

Truncated(b, i) == Kept(b, i) < OrigLen(b, i)

---------------------------------------------------------------------------
(* Properties. *)

\* C1: every valid call (at least one segment, all of rank 1 or all of
\* rank 2, sequence_length at least the delimiter overhead) returns, and
\* both outputs have the input's rank, one row per example and exactly
\* sequence_length positions in every row.
C1_OutputWidth ==
    ValidCall =>
      /\ Returned
      /\ token_ids.rank = InputRank
      /\ segment_ids.rank = InputRank
      /\ Len(RowsOf(token_ids)) = BatchSize
      /\ Len(RowsOf(segment_ids)) = BatchSize
      /\ \A b \in 1..BatchSize :
           /\ Len(TokRow(b)) = packer.sequence_length
           /\ Len(IdRow(b)) = packer.sequence_length

\* A batch of two examples, one cut by the trimmer and one padded.
C1_Witness ==
    /\ ValidCall /\ Returned /\ InputRank = 2 /\ BatchSize >= 2
    /\ \E b1, b2 \in 1..BatchSize :
         /\ \E i \in 1..N : Truncated(b1, i)
         /\ ContentLen(b2) < packer.sequence_length

\* C2: in every returned row the content is start, then each trimmed
\* segment (a prefix of the original) followed by sep, or by end after the
\* last one, with sep = end_value when sep_value is unset; every position
\* after the content holds the pad value.
C2_PackedLayout ==
    Returned =>
      \A b \in 1..BatchSize :
        /\ ContentLen(b) <= Len(TokRow(b))
        /\ \A i \in 1..N : Kept(b, i) <= OrigLen(b, i)
        /\ \A k \in 1..Len(TokRow(b)) :
             TokRow(b)[k] = IF k <= ContentLen(b) THEN ExpectedAt(b, k).tok
                                                  ELSE PadTok

\* C3: at every content position of a returned row the segment id is the
\* index of the segment the token came from: 0 for start, i for segment i
\* and for every token of the delimiter that follows it.
C3_SegmentIds ==
    Returned =>
      \A b \in 1..BatchSize :
        \A k \in 1..Max(0, Min(ContentLen(b), Len(IdRow(b)))) :
          /\ IdRow(b)[k] = ExpectedAt(b, k).id
          /\ TokRow(b)[k] = ExpectedAt(b, k).tok

\* Three segments, a two-token sep, tokens kept from the second segment.
C3_Witness ==
    /\ Returned /\ N = 3 /\ Len(SepToks) = 2 /\ Budget >= 0
    /\ \E b \in 1..BatchSize :
         /\ Kept(b, 2) >= 1
         /\ IdRow(b)[SegStart(b, 2) + Kept(b, 2) + 2] = 1

\* C4 (as claimed): in every row of a valid call the segment ids are in
\* 0..N-1, non-decreasing over all sequence_length positions, and 0 at
\* every pad position.
C4_NonDecreasingRow ==
    ValidCall /\ Returned =>
      \A b \in 1..BatchSize :
        /\ \A k \in 1..Len(IdRow(b)) :
             IdRow(b)[k] >= 0 /\ IdRow(b)[k] <= N - 1
        /\ \A k \in 1..(Len(IdRow(b)) - 1) : IdRow(b)[k] <= IdRow(b)[k + 1]
        /\ \A k \in 1..Len(IdRow(b)) : k > ContentLen(b) => IdRow(b)[k] = 0

\* C4 (amended): in every row of a valid call the segment ids are in
\* 0..N-1, non-decreasing over the content positions, and 0 at every pad
\* position.
C4_NonDecreasingContent ==
    ValidCall /\ Returned =>
      \A b \in 1..BatchSize :
        /\ \A k \in 1..Len(IdRow(b)) :
             IdRow(b)[k] >= 0 /\ IdRow(b)[k] <= N - 1
        /\ \A k \in 1..(Min(ContentLen(b), Len(IdRow(b))) - 1) :
             IdRow(b)[k] <= IdRow(b)[k + 1]
        /\ \A k \in 1..Len(IdRow(b)) : k > ContentLen(b) => IdRow(b)[k] = 0

\* A padded row whose last content position belongs to a later segment.
C4_Witness ==
    /\ ValidCall /\ Returned /\ N >= 2
    /\ \E b \in 1..BatchSize :
         /\ ContentLen(b) < packer.sequence_length
         /\ IdRow(b)[ContentLen(b)] = N - 1
         /\ IdRow(b)[ContentLen(b) + 1] = 0

\* C5: a call whose delimiter overhead exceeds sequence_length raises a
\* budget error and returns no output.
C5_BudgetError ==
    Called /\ N >= 1 /\ ~ BadRanks /\ Budget < 0 =>
      /\ status = "TrimError"
      /\ token_ids = NoTensor
      /\ segment_ids = NoTensor

\* C6: with round_robin and a budget B >= 0 the kept lengths are those of
\* handing out one slot at a time, left to right, to the segments still
\* short: they use min(B, total) slots, two truncated segments differ by
\* at most one with the longer one first, and a segment kept whole is no
\* longer than a truncated one (plus one slot if it comes first).
C6_RoundRobin ==
    Returned /\ packer.truncate = "round_robin" /\ Budget >= 0 =>
      \A b \in 1..BatchSize :
        /\ \A i \in 1..N : 0 <= Kept(b, i) /\ Kept(b, i) <= OrigLen(b, i)
        /\ SumTo(Kept, b, N) = Min(Budget, SumTo(OrigLen, b, N))
        /\ \A i, j \in 1..N :
             Truncated(b, i) /\ Truncated(b, j) /\ i < j =>
               Kept(b, j) <= Kept(b, i) /\ Kept(b, i) <= Kept(b, j) + 1
        /\ \A i, j \in 1..N :
             ~ Truncated(b, i) /\ Truncated(b, j) =>
               Kept(b, i) <= Kept(b, j) + (IF i < j THEN 1 ELSE 0)

\* Three truncated segments, the first one slot longer than the last.
C6_Witness ==
    /\ Returned /\ packer.truncate = "round_robin" /\ Budget >= 0 /\ N = 3
    /\ \E b \in 1..BatchSize :
         /\ \A i \in 1..N : Truncated(b, i)
         /\ Kept(b, 1) = Kept(b, 3) + 1

\* C7: with waterfall and a budget B >= 0 segment i keeps
\* min(L_i, B - what the segments before it kept), which is
\* max(0, min(L_i, B - L_1 - ... - L_(i-1))), and every segment after the
\* one that exhausts the budget keeps nothing.
C7_Waterfall ==
    Returned /\ packer.truncate = "waterfall" /\ Budget >= 0 =>
      \A b \in 1..BatchSize :
        /\ \A i \in 1..N :
             /\ Kept(b, i) = Min(OrigLen(b, i), Budget - SumTo(Kept, b, i - 1))
             /\ Kept(b, i) = Max(0, Min(OrigLen(b, i),
                                        Budget - SumTo(OrigLen, b, i - 1)))
        /\ \A i \in 1..N :
             SumTo(Kept, b, i) = Budget =>
               \A j \in (i + 1)..N : Kept(b, j) = 0

\* The first segment whole, the second cut short, the third left empty.
C7_Witness ==
    /\ Returned /\ packer.truncate = "waterfall" /\ Budget >= 0 /\ N = 3
    /\ \E b \in 1..BatchSize :
         /\ Kept(b, 1) = OrigLen(b, 1) /\ Kept(b, 1) >= 2
         /\ Kept(b, 2) >= 1 /\ Truncated(b, 2)
         /\ Kept(b, 3) = 0 /\ OrigLen(b, 3) >= 1

\* C8: for both strategies every kept length is between 0 and the
\* original length, and kept lengths plus delimiter overhead fit in
\* sequence_length, so densifying cuts nothing off.
C8_ContentFits ==
    Returned =>
      \A b \in 1..BatchSize :
        /\ \A i \in 1..N : 0 <= Kept(b, i) /\ Kept(b, i) <= OrigLen(b, i)
        /\ ContentLen(b) <= packer.sequence_length

\* C9: the packer rebuilt from get_config has the original's get_config
\* and returns what the original returns on the same inputs.
C9_ConfigRoundTrip ==
    clone # NoPacker =>
      /\ config = get_config(packer)
      /\ get_config(clone) = get_config(packer)
      /\ Called =>
           \E undefined \in TrimmerChoices(packer, inputs) :
             call_outcome(packer, inputs, undefined)
               = [status |-> status, inputs |-> inputs, segments |-> segments,
                  token_ids |-> token_ids, segment_ids |-> segment_ids]

\* A packer built with sep_value unset and a scalar start_value, rebuilt
\* and called on two segments.
C9_Witness ==
    /\ clone # NoPacker /\ Returned /\ N >= 2
    /\ packer._sep_value.kind = "none"
    /\ packer._start_value.kind = "scalar"
    /\ packer._end_value.kind = "list"

\* C10: a call raises an input validation error and returns nothing when
\* the collection is empty or some rank is undetermined, outside 1..2 or
\* different from another; any other call passes validation.
C10_Validation ==
    Called =>
      IF N = 0 \/ BadRanks
      THEN status = "ValueError" /\ token_ids = NoTensor
                                 /\ segment_ids = NoTensor
      ELSE status \notin {"ValueError", "TypeError"}

====
